---- MODULE Spec2Model ----
(***************************************************************************)
(* Model of the image optimizer (optimizer module and its batch loop).     *)
(*                                                                         *)
(* optimizeImage is an async function whose awaits are the encoder calls,  *)
(* the stats and the copy; batchOptimize awaits one optimizeImage call per *)
(* input path, in order.  The encoder (sharp) is external: it is modelled  *)
(* as a deterministic size function of (settings, quality) per source      *)
(* file, whose values are either fixed at the start (total function) or    *)
(* revealed on first use and remembered (every function is covered).       *)
(* An encoder call may also fail (corrupt source, unwritable output).      *)
(* savingsPercent (a formatted string derived from savings and             *)
(* originalSize) and the mkdir of the output directory are left out.       *)
(***************************************************************************)
EXTENDS Integers, Sequences, FiniteSets, TLC

\* ---------------------------------------------------------------- bounds
MaxQuality == 11
MaxSize == 3
MaxFiles == 2
MaxIterations == 3

\* ------------------------------------------------------ program constants
FloorQuality == 10
AggressiveOffset == 5
AggressiveStep == 2
CopyQuality == 100
Infinity == 1000000
DefaultMaxIterations == 10

VARIABLES
    inputPaths,        \* batchOptimize argument: sequence of input paths
    outputDir,         \* batchOptimize argument
    targetSize,        \* <<>> for null, <<t>> for a target of t bytes
    options,           \* [minQuality, maxQuality, maxIterations, safetyMargin]
    inPlace,           \* the command line's --in-place (options.inPlace)
    fs,                \* file system: path -> content
    results,           \* batchOptimize: results
    i,                 \* batchOptimize: position of the for loop (1-based)
    pc,                \* position inside batchOptimize / optimizeImage
    originalSize, quality, bestQuality, bestSize, iterations, low, high,
    optimizedSize, aggressiveQuality,      \* locals of optimizeImage
    enc,               \* encoder size function of the current source
    log                \* history: every encoder invocation and copy so far

vars == <<inputPaths, outputDir, targetSize, options, inPlace, fs, results, i, pc,
          originalSize, quality, bestQuality, bestSize, iterations, low, high,
          optimizedSize, aggressiveQuality, enc, log>>

locals == <<originalSize, quality, bestQuality, bestSize, iterations, low,
            high, optimizedSize, aggressiveQuality>>

args == <<inputPaths, outputDir, targetSize, options, inPlace>>

Max(a, b) == IF a >= b THEN a ELSE b

\* ----------------------------------------------------------------- paths
Null == <<>>

Dirs == {"a", "b", "out", "a/optimized", "b/optimized"}

Exts == {".png", ".PNG", ".jpg", ".jpeg", ".gif"}

ToLowerCase(s) == IF s = ".PNG" THEN ".png" ELSE s

ExtName(p) == p.ext

Basename(p) == [stem |-> p.stem, ext |-> p.ext]

Join(dir, base) == [dir |-> dir, stem |-> base.stem, ext |-> base.ext]

\* path.dirname
Dirname(p) == p.dir

\* path.join(dir, 'optimized')
JoinOptimized(dir) ==
    CASE dir = "a" -> "a/optimized"
      [] dir = "b" -> "b/optimized"

Path(d, s, e) == [dir |-> d, stem |-> s, ext |-> e]

Stems == {"x", "y", "z"}

AllPaths == {Path(d, s, e) : d \in Dirs, s \in Stems, e \in Exts}

Absent == [kind |-> "absent"]

Original(p, s) == [kind |-> "orig", src |-> p, q |-> 0, agg |-> FALSE, size |-> s]

Sizes == 1..MaxSize

\* -------------------------------------------------------------- encoder
EncQualities == 1..Max(FloorQuality, MaxQuality)

EncKeys == BOOLEAN \X EncQualities

\* an encoder is, per settings and quality, the set of sizes it may still
\* produce: one size once known; this one is not known anywhere yet
EmptyEnc == [k \in EncKeys |-> Sizes]

\* --------------------------------------------- the file being processed
inputPath == inputPaths[i]

filename == Basename(inputPath)

outputPath == Join(outputDir, filename)

ext == ToLowerCase(ExtName(inputPath))

minQuality == options.minQuality

maxQuality == options.maxQuality

maxIterations == options.maxIterations

safetyMargin == options.safetyMargin

adjustedTarget == targetSize[1] - safetyMargin

Supported == ext = ".png" \/ ext = ".jpg" \/ ext = ".jpeg"

\* a stat that looks at the source instead of the path it is given
StatOfInput(f, p) == f[inputPath].size

\* (await fs.stat(p)).size
Stat(f, p) == f[p].size

\* the sizes the encoder can produce from the current source for settings k:
\* the known one, or any size when this is the first use of k
EncodeSizes(k) == enc[inputPath][k]

Encoded(q, agg, s) ==
    [kind |-> "enc", src |-> inputPath, q |-> q, agg |-> agg, size |-> s]

\* sharp(inputPath) ... toFile(outputPath) with the same file on both sides
\* is rejected ("Cannot use same file for input and output")
SameFile == outputPath = inputPath

\* one successful encoder invocation: toFile(outputPath) at quality q
EncodeOk(phase, q, agg, s) ==
    /\ ~SameFile
    /\ s \in EncodeSizes(<<agg, q>>)
    /\ enc' = [enc EXCEPT ![inputPath][<<agg, q>>] = {s}]
    /\ fs' = [fs EXCEPT ![outputPath] = Encoded(q, agg, s)]
    /\ log' = Append(log, [file |-> i, op |-> "encode", phase |-> phase,
                           q |-> q, agg |-> agg, ok |-> TRUE, size |-> s,
                           to |-> outputPath])

\* one failing encoder invocation: nothing is written
EncodeFails(phase, q, agg) ==
    /\ UNCHANGED <<enc, fs>>
    /\ log' = Append(log, [file |-> i, op |-> "encode", phase |-> phase,
                           q |-> q, agg |-> agg, ok |-> FALSE, size |-> 0,
                           to |-> outputPath])

ResultRecord(success, optSize, q, iters, savings, under) ==
    [filename |-> filename, inputPath |-> inputPath, outputPath |-> outputPath,
     success |-> success, originalSize |-> originalSize,
     optimizedSize |-> optSize, quality |-> q, iterations |-> iters,
     savings |-> savings, underTarget |-> under]

ErrorRecord(wrapped, cause) ==
    [filename |-> filename, inputPath |-> inputPath, outputPath |-> outputPath,
     success |-> FALSE, error |-> [wrapped |-> wrapped, cause |-> cause]]

\* results.unshift instead of results.push
PushFront(r) ==
    /\ results' = <<r>> \o results
    /\ i' = i + 1
    /\ pc' = "loop"

\* optimizeImage returned r / threw: batchOptimize pushes and moves on
Push(r) ==
    /\ results' = Append(results, r)
    /\ i' = i + 1
    /\ pc' = "loop"

\* call state kept in module-level variables: it outlives the call
KeepLocals == UNCHANGED locals

ResetLocals ==
    /\ originalSize' = 0
    /\ quality' = 0
    /\ bestQuality' = 0
    /\ bestSize' = Infinity
    /\ iterations' = 0
    /\ low' = 0
    /\ high' = 0
    /\ optimizedSize' = 0
    /\ aggressiveQuality' = 0

\* the margin test off by one
AlreadyUnderStrict(size) == size < adjustedTarget

\* originalSize <= adjustedTarget
AlreadyUnder(size) == size <= adjustedTarget

\* quality mode starting from the wrong end of the range
InitialQualityMin == minQuality

\* let quality = maxQuality
InitialQuality == maxQuality

\* ------------------------------------------------------------ actions
\* for-loop picks the next input; optimizeImage stats it and chooses a mode
StartFile ==
    /\ pc = "loop"
    /\ i <= Len(inputPaths)
    /\ fs[inputPath] # Absent
    /\ originalSize' = Stat(fs, inputPath)
    /\ iterations' = 0
    /\ bestSize' = Infinity
    /\ optimizedSize' = 0
    /\ aggressiveQuality' = 0
    /\ IF targetSize = Null
         THEN /\ pc' = "quality"
              /\ quality' = InitialQuality
              /\ bestQuality' = 0
              /\ low' = 0
              /\ high' = 0
         ELSE IF AlreadyUnder(originalSize')
         THEN /\ pc' = "copy"
              /\ quality' = 0
              /\ bestQuality' = 0
              /\ low' = 0
              /\ high' = 0
         ELSE /\ pc' = "search"
              /\ quality' = InitialQuality
              /\ bestQuality' = InitialQuality
              /\ low' = minQuality
              /\ high' = maxQuality
    /\ UNCHANGED <<args, fs, results, i, enc, log>>

\* a rejected stat that escapes the per-file catch and ends the batch
StatFailAborts ==
    /\ pc = "loop"
    /\ i <= Len(inputPaths)
    /\ fs[inputPath] = Absent
    /\ pc' = "done"
    /\ UNCHANGED <<args, fs, results, i, locals, enc, log>>

\* fs.stat(inputPath) rejects: the catch of batchOptimize records the error
StatFail ==
    /\ pc = "loop"
    /\ i <= Len(inputPaths)
    /\ fs[inputPath] = Absent
    /\ Push(ErrorRecord(FALSE, "stat"))
    /\ UNCHANGED <<args, fs, locals, enc, log>>

\* quality-only mode: one encode at maxQuality, stat, return
QualityOnly ==
    /\ pc = "quality"
    /\ Supported
    /\ \E s \in Sizes : EncodeOk("quality", quality, FALSE, s)
    /\ LET size == Stat(fs', outputPath)
       IN  Push(ResultRecord(TRUE, size, quality, 1, originalSize - size, TRUE))
    /\ ResetLocals
    /\ UNCHANGED args

QualityFail ==
    /\ pc = "quality"
    /\ IF Supported
         THEN /\ EncodeFails("quality", quality, FALSE)
              /\ Push(ErrorRecord(TRUE, "encode"))
         ELSE /\ UNCHANGED <<enc, fs, log>>
              /\ Push(ErrorRecord(TRUE, "unsupported"))
    /\ ResetLocals
    /\ UNCHANGED args

\* already under the adjusted target: copy the source and return
ShortCircuit ==
    /\ pc = "copy"
    /\ fs' = [fs EXCEPT ![outputPath] = fs[inputPath]]
    /\ log' = Append(log, [file |-> i, op |-> "copy", phase |-> "copy",
                           q |-> 0, agg |-> FALSE, ok |-> TRUE,
                           size |-> fs[inputPath].size, to |-> outputPath])
    /\ Push(ResultRecord(TRUE, originalSize, CopyQuality, 0, 0, TRUE))
    /\ ResetLocals
    /\ UNCHANGED <<args, enc>>

CopyFail ==
    /\ pc = "copy"
    /\ log' = Append(log, [file |-> i, op |-> "copy", phase |-> "copy",
                           q |-> 0, agg |-> FALSE, ok |-> FALSE, size |-> 0,
                           to |-> outputPath])
    /\ Push(ErrorRecord(FALSE, "copy"))
    /\ ResetLocals
    /\ UNCHANGED <<args, enc, fs>>

\* the loop test without the iteration cap
SearchCondNoCap == low <= high

\* low <= high && iterations < maxIterations
SearchCond == low <= high /\ iterations < maxIterations

\* Math.floor((low + high) / 2)
Mid == (low + high) \div 2

\* the size test off by one
AcceptableStrict(size) == size < adjustedTarget

\* currentSize <= adjustedTarget
Acceptable(size) == size <= adjustedTarget

\* a step down that skips a quality
NextHighSkips(q) == q - 2

\* high = quality - 1
NextHigh(q) == q - 1

\* low = quality + 1
NextLow(q) == q + 1

\* one pass of the binary-search loop
SearchStep ==
    /\ pc = "search"
    /\ SearchCond
    /\ Supported
    /\ iterations' = iterations + 1
    /\ quality' = Mid
    /\ \E s \in Sizes : EncodeOk("search", Mid, FALSE, s)
    /\ LET currentSize == Stat(fs', outputPath)
       IN  IF Acceptable(currentSize)
             THEN /\ bestQuality' = Mid
                  /\ bestSize' = currentSize
                  /\ low' = NextLow(Mid)
                  /\ high' = high
             ELSE /\ high' = NextHigh(Mid)
                  /\ UNCHANGED <<bestQuality, bestSize, low>>
    /\ UNCHANGED <<args, results, i, pc, originalSize, optimizedSize,
                   aggressiveQuality>>

SearchFail ==
    /\ pc = "search"
    /\ SearchCond
    /\ IF Supported
         THEN /\ EncodeFails("search", Mid, FALSE)
              /\ Push(ErrorRecord(TRUE, "encode"))
         ELSE /\ UNCHANGED <<enc, fs, log>>
              /\ Push(ErrorRecord(TRUE, "unsupported"))
    /\ ResetLocals
    /\ UNCHANGED args

NoneFound == bestSize = Infinity \/ bestSize > adjustedTarget

FloorOf(m) == Max(FloorQuality, m)

AggressiveStart(m) == Max(1, m - AggressiveOffset)

\* Step 3 without the regeneration at bestQuality
ResolveQualityNoReencode == IF NoneFound THEN FloorOf(minQuality) ELSE 0

\* the quality of the encode made after the loop, 0 when none is made
ResolveQuality ==
    IF NoneFound THEN FloorOf(minQuality)
    ELSE IF bestQuality # quality THEN bestQuality
    ELSE 0

ResolvePhase == IF NoneFound THEN "floor" ELSE "reencode"

\* the fallback test made against the margined target
OverAdjusted(size) == size > adjustedTarget

\* optimizedSize > targetSize
OverTarget(size) == size > targetSize[1]

\* after the loop: floor encode or re-encode at bestQuality, then the stat
\* and the test that opens the aggressive fallback
Resolve ==
    /\ pc = "search"
    /\ ~SearchCond
    /\ IF ResolveQuality # 0
         THEN \E s \in Sizes : EncodeOk(ResolvePhase, ResolveQuality, FALSE, s)
         ELSE UNCHANGED <<enc, fs, log>>
    /\ fs'[outputPath] # Absent
    /\ quality' = IF NoneFound THEN FloorOf(minQuality) ELSE quality
    /\ optimizedSize' = Stat(fs', outputPath)
    /\ IF OverTarget(optimizedSize')
         THEN /\ aggressiveQuality' = AggressiveStart(minQuality)
              /\ pc' = "fallback"
         ELSE /\ aggressiveQuality' = aggressiveQuality
              /\ pc' = "return"
    /\ UNCHANGED <<args, results, i, originalSize, bestQuality, bestSize,
                   iterations, low, high>>

\* the Step 3 encode, or the stat after it, rejects (no try/catch: raw error)
ResolveFail ==
    /\ pc = "search"
    /\ ~SearchCond
    /\ IF ResolveQuality # 0
         THEN /\ EncodeFails(ResolvePhase, ResolveQuality, FALSE)
              /\ Push(ErrorRecord(FALSE, "encode"))
         ELSE /\ fs[outputPath] = Absent
              /\ UNCHANGED <<enc, fs, log>>
              /\ Push(ErrorRecord(FALSE, "stat"))
    /\ ResetLocals
    /\ UNCHANGED args

\* a fallback that steps down by one
NextAggressiveByOne(a) == a - 1

\* aggressiveQuality -= 2
NextAggressive(a) == a - AggressiveStep

FallbackCond == aggressiveQuality >= 1 /\ optimizedSize > targetSize[1]

\* JPEG (every non-PNG extension) gets the aggressive settings
AggressiveSettings == ext # ".png"

\* a fallback pass that counts as an iteration
FallbackStepCounting ==
    /\ pc = "fallback"
    /\ FallbackCond
    /\ \E s \in Sizes :
          EncodeOk("aggressive", aggressiveQuality, AggressiveSettings, s)
    /\ optimizedSize' = Stat(fs', outputPath)
    /\ IF optimizedSize' <= targetSize[1]
         THEN /\ quality' = aggressiveQuality
              /\ pc' = "return"
              /\ aggressiveQuality' = aggressiveQuality
         ELSE /\ aggressiveQuality' = NextAggressive(aggressiveQuality)
              /\ UNCHANGED <<quality, pc>>
    /\ iterations' = iterations + 1
    /\ UNCHANGED <<args, results, i, originalSize, bestQuality, bestSize,
                   low, high>>

\* one pass of the aggressive-fallback loop
FallbackStep ==
    /\ pc = "fallback"
    /\ FallbackCond
    /\ \E s \in Sizes :
          EncodeOk("aggressive", aggressiveQuality, AggressiveSettings, s)
    /\ optimizedSize' = Stat(fs', outputPath)
    /\ IF optimizedSize' <= targetSize[1]
         THEN /\ quality' = aggressiveQuality
              /\ pc' = "return"
              /\ aggressiveQuality' = aggressiveQuality
         ELSE /\ aggressiveQuality' = NextAggressive(aggressiveQuality)
              /\ UNCHANGED <<quality, pc>>
    /\ UNCHANGED <<args, results, i, originalSize, bestQuality, bestSize,
                   iterations, low, high>>

FallbackFail ==
    /\ pc = "fallback"
    /\ FallbackCond
    /\ EncodeFails("aggressive", aggressiveQuality, AggressiveSettings)
    /\ Push(ErrorRecord(FALSE, "encode"))
    /\ ResetLocals
    /\ UNCHANGED args

\* bestQuality || quality
ReportedQuality == IF bestQuality # 0 THEN bestQuality ELSE quality

\* success only strictly under the target
IsSuccessStrict(size) == size < targetSize[1]

\* success: optimizedSize <= targetSize
IsSuccess(size) == size <= targetSize[1]

\* build the result of the size-targeting mode and return it
Return ==
    /\ \/ pc = "return"
       \/ pc = "fallback" /\ ~FallbackCond
    /\ Push(ResultRecord(IsSuccess(optimizedSize), optimizedSize,
                         ReportedQuality, iterations,
                         originalSize - optimizedSize,
                         optimizedSize <= targetSize[1]))
    /\ ResetLocals
    /\ UNCHANGED <<args, fs, enc, log>>

\* the for loop is over: return results
BatchReturn ==
    /\ pc = "loop"
    /\ i > Len(inputPaths)
    /\ pc' = "done"
    /\ UNCHANGED <<args, fs, results, i, locals, enc, log>>

\* fs.rename(from, to)
Rename(f, from, to) ==
    IF from = to THEN f ELSE [f EXCEPT ![to] = f[from], ![from] = Absent]

\* result.success && !result.error
ToMoveBack(r) == r.success /\ "error" \notin DOMAIN r

RECURSIVE MoveBackFrom(_, _)
\* the in-place loop from results[k] on: st.fs is the file system so far,
\* st.moved the results renamed so far; a rejected rename leaves the loop
MoveBackFrom(st, k) ==
    IF k > Len(results) THEN st
    ELSE IF ~ToMoveBack(results[k]) THEN MoveBackFrom(st, k + 1)
    ELSE IF st.fs[results[k].outputPath] = Absent THEN st
    ELSE MoveBackFrom([fs |-> Rename(st.fs, results[k].outputPath,
                                     results[k].inputPath),
                       moved |-> st.moved \cup {k}], k + 1)

\* command line, in-place: move the optimized files back over the inputs
MoveBack ==
    /\ pc = "done"
    /\ inPlace
    /\ LET st == MoveBackFrom([fs |-> fs, moved |-> {}], 1)
       IN  /\ fs' = st.fs
           /\ results' =
                 [k \in DOMAIN results |->
                     IF k \in st.moved
                       THEN [results[k] EXCEPT
                                !.outputPath = results[k].inputPath]
                       ELSE results[k]]
    /\ pc' = "exit"
    /\ UNCHANGED <<args, i, locals, enc, log>>

Next ==
    \/ StartFile
    \/ StatFail
    \/ QualityOnly
    \/ QualityFail
    \/ ShortCircuit
    \/ CopyFail
    \/ SearchStep
    \/ SearchFail
    \/ Resolve
    \/ ResolveFail
    \/ FallbackStep
    \/ FallbackFail
    \/ Return
    \/ BatchReturn
    \/ MoveBack

\* ----------------------------------------------------- initial states
Qualities == 1..MaxQuality

Margins == {0 - 1, 0, 1}

TargetSizes == {<<2>>}

\* options with the quality range taken from pairs
OptionSets(pairs, iters, margins) ==
    {[minQuality |-> r[1], maxQuality |-> r[2], maxIterations |-> n,
      safetyMargin |-> m] : r \in pairs, n \in iters, m \in margins}

AllRanges == Qualities \X Qualities

\* ranges at the ends and in the middle of the scale, two of them empty
SomeRanges ==
    {<<1, 1>>, <<1, MaxQuality>>, <<7, 9>>, <<10, MaxQuality>>,
     <<MaxQuality, MaxQuality>>, <<MaxQuality, 1>>, <<8, 7>>}

\* one input per extension case
InputPathSet ==
    {Path("a", "x", ".PNG"), Path("a", "y", ".jpg"), Path("a", "z", ".gif")}

\* a source is small, just under the target, or larger than any encoding
OriginalSizes == {<<1>>, <<2>>, <<MaxSize + 1>>}

\* every input either is missing (Null) or holds its original bytes
FileSystems(paths, sizes) ==
    {[p \in AllPaths |->
        IF p \in paths /\ g[p] # Null THEN Original(p, g[p][1]) ELSE Absent] :
            g \in [paths -> sizes]}

InputsOf(paths) == {paths[n] : n \in 1..Len(paths)}

InitWith(inputs, dirs, targets, opts, sizes, encoders) ==
    /\ inputPaths \in inputs
    /\ outputDir \in dirs
    /\ targetSize \in targets
    /\ options \in opts
    /\ inPlace = FALSE
    /\ fs \in FileSystems(InputsOf(inputPaths), sizes)
    /\ results = <<>>
    /\ i = 1
    /\ pc = "loop"
    /\ originalSize = 0
    /\ quality = 0
    /\ bestQuality = 0
    /\ bestSize = Infinity
    /\ iterations = 0
    /\ low = 0
    /\ high = 0
    /\ optimizedSize = 0
    /\ aggressiveQuality = 0
    /\ enc \in [InputsOf(inputPaths) -> encoders]
    /\ log = <<>>

\* one optimizeImage call (a batch of one file) on an encoder of which nothing
\* is known: either mode on every kind of source with some quality ranges and
\* every other option, size targeting of a large PNG or JPEG with every
\* quality range, and a source one byte over the target with a negative margin
InitOne ==
    \/ InitWith({<<p>> : p \in InputPathSet}, {"out"}, {Null} \cup TargetSizes,
                OptionSets(SomeRanges, 0..MaxIterations, Margins),
                {Null} \cup OriginalSizes, {EmptyEnc})
    \/ InitWith({<<p>> : p \in InputPathSet}, {"out"}, {Null},
                OptionSets(AllRanges, {MaxIterations}, {1}),
                {<<1>>}, {EmptyEnc})
    \/ InitWith({<<Path("a", "x", ".PNG")>>, <<Path("a", "y", ".jpg")>>},
                {"out"}, TargetSizes,
                OptionSets(AllRanges, {1, MaxIterations}, {0, 1}),
                {<<MaxSize + 1>>}, {EmptyEnc})
    \/ InitWith({<<p>> : p \in InputPathSet}, {"out"}, TargetSizes,
                OptionSets(SomeRanges, {MaxIterations}, {0 - 1}),
                {<<3>>}, {EmptyEnc})

\* encoders whose size under the normal settings is a known non-decreasing
\* function of quality: t[j] is the last quality of size <= j
Thresholds ==
    {t \in [1..(MaxSize - 1) -> 0..Max(FloorQuality, MaxQuality)] :
        \A j \in DOMAIN t : \A k \in DOMAIN t : j <= k => t[j] <= t[k]}

MonotoneEnc(t) ==
    [k \in EncKeys |->
        IF k[1] THEN Sizes
        ELSE {1 + Cardinality({j \in DOMAIN t : t[j] < k[2]})}]

MonotoneEncoders == {MonotoneEnc(t) : t \in Thresholds}

MonotoneOptionSets ==
    OptionSets({r \in AllRanges : r[1] <= r[2] /\ r[1] \in {1, 4, 7}},
               {1, MaxIterations}, {1})

\* one size-targeting call on a large PNG with a monotone encoder
InitMonotone ==
    InitWith({<<Path("a", "x", ".PNG")>>}, {"out"}, TargetSizes,
             MonotoneOptionSets, {<<MaxSize + 1>>}, MonotoneEncoders)

\* batches: inputs from two directories, two of them with the same name
BatchPathSet ==
    {Path("a", "x", ".png"), Path("b", "x", ".png"), Path("a", "z", ".gif")}

BatchInputs ==
    UNION {[1..n -> BatchPathSet] : n \in 1..MaxFiles}

\* size 1 up to quality t, MaxSize above, under either settings
StepEnc(t) == [k \in EncKeys |-> IF k[2] <= t THEN {1} ELSE {MaxSize}]

BatchEncoders == {StepEnc(0), StepEnc(9)}

BatchOptionSets ==
    {[minQuality |-> 8, maxQuality |-> MaxQuality, maxIterations |-> 2,
      safetyMargin |-> 0],
     [minQuality |-> MaxQuality, maxQuality |-> MaxQuality, maxIterations |-> 1,
      safetyMargin |-> 1]}

InitBatch ==
    InitWith(BatchInputs, {"out"}, {Null} \cup TargetSizes, BatchOptionSets,
             {Null, <<1>>, <<MaxSize + 1>>}, BatchEncoders)

\* command line: the resolved inputs of a walk over a and b, a holding the
\* output of an earlier run; all of them exist and have a supported extension
CliPathSet ==
    {Path("a", "x", ".png"), Path("a/optimized", "x", ".png"),
     Path("b", "x", ".png")}

CliInputs ==
    {l \in UNION {[1..n -> CliPathSet] : n \in 1..MaxFiles} :
        Dirname(l[1]) \in {"a", "b"}}

\* --output given
CustomDirs == {"out"}

\* the directory handed to batchOptimize
OutputDirs(paths, inplace) ==
    IF inplace
      THEN {Dirname(paths[1])}
      ELSE {JoinOptimized(Dirname(paths[1]))} \cup CustomDirs

\* the options the command line passes: no maxIterations
CliOptionSets ==
    {[minQuality |-> 8, maxQuality |-> MaxQuality,
      maxIterations |-> DefaultMaxIterations, safetyMargin |-> 0]}

InitCli ==
    /\ inputPaths \in CliInputs
    /\ inPlace \in BOOLEAN
    /\ outputDir \in OutputDirs(inputPaths, inPlace)
    /\ targetSize \in {Null} \cup TargetSizes
    /\ options \in CliOptionSets
    /\ fs \in FileSystems(InputsOf(inputPaths), {<<MaxSize + 1>>})
    /\ results = <<>>
    /\ i = 1
    /\ pc = "loop"
    /\ originalSize = 0
    /\ quality = 0
    /\ bestQuality = 0
    /\ bestSize = Infinity
    /\ iterations = 0
    /\ low = 0
    /\ high = 0
    /\ optimizedSize = 0
    /\ aggressiveQuality = 0
    /\ enc \in [InputsOf(inputPaths) -> {StepEnc(9)}]
    /\ log = <<>>

Init == InitOne \/ InitBatch \/ InitCli

Spec == Init /\ [][Next]_vars

SpecMonotone == (InitMonotone \/ InitBatch \/ InitCli) /\ [][Next]_vars

\* ------------------------------------------------------------- history
IsError(r) == "error" \in DOMAIN r

\* the call for the last record has just returned: nothing ran since
JustReturned == pc \in {"loop", "done"} /\ results # <<>>

LastResult == results[Len(results)]

\* positions in the history of the operations made for input k
OpsOf(k) == {n \in DOMAIN log : log[n].file = k}

EncodesOf(k) == {n \in OpsOf(k) : log[n].op = "encode"}

PhaseOf(k, phase) == {n \in EncodesOf(k) : log[n].phase = phase}

WritesOf(k) == {n \in OpsOf(k) : log[n].ok}

LastOf(S) == CHOOSE n \in S : \A m \in S : m <= n

ExtSupported(p) == ToLowerCase(ExtName(p)) \in {".png", ".jpg", ".jpeg"}

SizeTargeting == targetSize # Null

\* ---------------------------------------------------------------- C1
\* C1: whenever optimizeImage has just returned a result (any mode), the
\* optimizedSize of the result is the size of the bytes now at the output
\* path, which are those of the last write (copy or encode) of that call.
C1_OptimizedSizeIsOutputSize ==
    (JustReturned /\ ~IsError(LastResult)) =>
        /\ fs[LastResult.outputPath] # Absent
        /\ LastResult.optimizedSize = fs[LastResult.outputPath].size
        /\ WritesOf(Len(results)) # {}
        /\ LastResult.optimizedSize = log[LastOf(WritesOf(Len(results)))].size

\* a result produced by an aggressive-fallback encode that followed a
\* Step 3 encode of another size
C1_Witness ==
    /\ JustReturned
    /\ ~IsError(LastResult)
    /\ PhaseOf(Len(results), "aggressive") # {}
    /\ \E n \in PhaseOf(Len(results), "floor") :
           log[n].size # LastResult.optimizedSize

\* ---------------------------------------------------------------- C2
\* C2: whenever a size-targeting call that invoked the encoder has just
\* returned a result, the quality of the result is the quality of the last
\* encoder invocation that wrote the output path (stated for valid options:
\* minQuality <= maxQuality, maxIterations >= 1, safetyMargin >= 0).
C2_QualityIsLastEncodeQuality ==
    (/\ JustReturned
     /\ SizeTargeting
     /\ minQuality <= maxQuality
     /\ maxIterations >= 1
     /\ safetyMargin >= 0
     /\ ~IsError(LastResult)
     /\ EncodesOf(Len(results)) # {}) =>
        LastResult.quality = log[LastOf(EncodesOf(Len(results)))].q

\* ---------------------------------------------------------------- C3
\* C3: a size-targeting call whose source size is <= targetSize -
\* safetyMargin never invokes the encoder; when it has returned, the output
\* bytes are the input bytes and the result has iterations 0, optimizedSize
\* = originalSize, quality 100, savings 0 and underTarget true. (The source
\* is read where no operation of the run has written to its path.)
C3_ShortCircuit ==
    \A k \in 1..Len(inputPaths) :
        (/\ SizeTargeting
         /\ fs[inputPaths[k]] # Absent
         /\ fs[inputPaths[k]].kind = "orig"
         /\ fs[inputPaths[k]].src = inputPaths[k]
         /\ fs[inputPaths[k]].size <= targetSize[1] - options.safetyMargin) =>
            /\ EncodesOf(k) = {}
            /\ (k <= Len(results) /\ ~IsError(results[k])) =>
                  /\ results[k].iterations = 0
                  /\ results[k].originalSize = fs[inputPaths[k]].size
                  /\ results[k].optimizedSize = results[k].originalSize
                  /\ results[k].quality = 100
                  /\ results[k].savings = 0
                  /\ results[k].underTarget
            /\ (k = Len(results) /\ ~IsError(results[k]) /\ JustReturned) =>
                  fs[results[k].outputPath] = fs[inputPaths[k]]

\* a short-circuit result for a source exactly at the adjusted target
C3_Witness ==
    /\ JustReturned
    /\ SizeTargeting
    /\ ~IsError(LastResult)
    /\ LastResult.iterations = 0
    /\ LastResult.originalSize = targetSize[1] - options.safetyMargin
    /\ fs[LastResult.outputPath] = fs[LastResult.inputPath]

\* ---------------------------------------------------------------- C4
\* C4: with minQuality <= maxQuality and maxIterations >= 1, the binary
\* search of a call never makes more than maxIterations encoder
\* invocations, the counter equals their number while the search runs, and
\* a returned size-targeting result reports exactly that number.
C4_SearchBounded ==
    (SizeTargeting /\ minQuality <= maxQuality /\ maxIterations >= 1) =>
        \A k \in 1..Len(inputPaths) :
            /\ Cardinality(PhaseOf(k, "search")) <= maxIterations
            /\ (k = i /\ pc \in {"search", "return", "fallback"}) =>
                  iterations = Cardinality(PhaseOf(k, "search"))
            /\ (k <= Len(results) /\ ~IsError(results[k])) =>
                  results[k].iterations = Cardinality(PhaseOf(k, "search"))

\* the search was cut by the cap with the interval still open, and returned
C4_Witness ==
    /\ pc = "return"
    /\ minQuality <= maxQuality
    /\ maxIterations >= 2
    /\ iterations = maxIterations
    /\ low <= high

\* ---------------------------------------------------------------- C5
\* C5: during and after the binary search, if some sampled quality gave a
\* size <= adjustedTarget then bestQuality is the largest such quality and
\* bestSize the size seen at it, whatever the encoder's size function.
C5_BestIsMaxAcceptable ==
    pc \in {"search", "return", "fallback"} =>
        LET acc == {n \in PhaseOf(i, "search") :
                        log[n].ok /\ log[n].size <= targetSize[1] - safetyMargin}
        IN  acc # {} =>
               \E n \in acc :
                   /\ log[n].q = bestQuality
                   /\ log[n].size = bestSize
                   /\ \A m \in acc : log[m].q <= log[n].q

\* two acceptable samples, then a rejected one above the best, on an encoder
\* that is not monotone (a lower quality was rejected too)
C5_Witness ==
    /\ pc = "return"
    /\ LET S == PhaseOf(i, "search")
       IN  /\ \E n \in S : \E m \in S :
                 /\ n < m
                 /\ log[n].size <= adjustedTarget
                 /\ log[m].size <= adjustedTarget
           /\ \E n \in S : log[n].q > bestQuality /\ log[n].size > adjustedTarget
           /\ log[LastOf(S)].q # bestQuality

\* ---------------------------------------------------------------- C6
\* the encoder of the current source has a known size at every quality under
\* the normal settings, non-decreasing in quality
NormalSize(q) == CHOOSE s \in enc[inputPath][<<FALSE, q>>] : TRUE

MonotoneEncoder ==
    /\ \A q \in EncQualities : Cardinality(enc[inputPath][<<FALSE, q>>]) = 1
    /\ \A q \in EncQualities : \A r \in EncQualities :
           q <= r => NormalSize(q) <= NormalSize(r)

Satisfying ==
    {q \in minQuality..maxQuality :
        NormalSize(q) <= targetSize[1] - safetyMargin}

SearchOver == pc \in {"return", "fallback"}

\* C6 as stated: on a monotone encoder, for every minQuality <= maxQuality
\* and maxIterations >= 1, a search that found an acceptable quality ends
\* with bestQuality = the largest quality of [minQuality, maxQuality] whose
\* size is <= adjustedTarget.
C6_BestIsMaxSatisfying ==
    (/\ SearchOver
     /\ MonotoneEncoder
     /\ minQuality <= maxQuality
     /\ maxIterations >= 1
     /\ bestSize # Infinity) =>
        /\ Satisfying # {}
        /\ bestQuality = LastOf(Satisfying)

\* C6 amended: the same, for a search that ended because the interval was
\* exhausted (low > high) and not because of the iteration cap.
C6_BestIsMaxSatisfyingWhenExhausted ==
    (/\ SearchOver
     /\ MonotoneEncoder
     /\ minQuality <= maxQuality
     /\ maxIterations >= 1
     /\ low > high
     /\ bestSize # Infinity) =>
        /\ Satisfying # {}
        /\ bestQuality = LastOf(Satisfying)

\* an exhausted search of three samples whose best is inside the range
C6_Witness ==
    /\ SearchOver
    /\ MonotoneEncoder
    /\ low > high
    /\ iterations >= 3
    /\ bestSize # Infinity
    /\ minQuality < bestQuality
    /\ bestQuality < maxQuality
    /\ bestQuality = LastOf(Satisfying)

\* ---------------------------------------------------------------- C7
AggressiveOf(k) == PhaseOf(k, "aggressive")

\* C7: the aggressive-fallback attempts of a call go down by exactly 2 from
\* one to the next, none is below quality 1, and there are at most
\* ceil(max(1, minQuality - 5) / 2) of them, after which the phase is left.
C7_FallbackDecreasesAndEnds ==
    \A k \in 1..Len(inputPaths) :
        /\ \A n \in AggressiveOf(k) : log[n].q >= 1
        /\ \A n \in AggressiveOf(k) : \A m \in AggressiveOf(k) :
               (n < m /\ ~\E j \in AggressiveOf(k) : n < j /\ j < m) =>
                   log[m].q = log[n].q - 2
        /\ Cardinality(AggressiveOf(k)) * 2 <= Max(1, minQuality - 5) + 1
        /\ (k = i /\ pc = "fallback"
              /\ Cardinality(AggressiveOf(k)) * 2 >= Max(1, minQuality - 5)) =>
               ~FallbackCond

\* a fallback that made every attempt down to quality 1 and then gave up
C7_Witness ==
    /\ pc = "fallback"
    /\ ~FallbackCond
    /\ Cardinality(AggressiveOf(i)) >= 3
    /\ \E n \in AggressiveOf(i) : log[n].q = 1

\* ---------------------------------------------------------------- C8
\* C8: a failure at any point of a file's optimization (source stat, copy,
\* search encode, Step 3 encode, fallback encode) never stops the batch:
\* there is always a next step until batchOptimize returns, each processed
\* file has exactly one record, a file with a failed operation has an error
\* record (success false, with an error) and nothing more is done for it
\* after the failure, and at the return every input has its record.
C8_BatchIsolation ==
    /\ pc \notin {"done", "exit"} => ENABLED Next
    /\ Len(results) = i - 1
    /\ pc = "done" => Len(results) = Len(inputPaths)
    /\ \A k \in 1..Len(results) :
          /\ IsError(results[k]) =>
                /\ results[k].success = FALSE
                /\ results[k].error.cause \in {"stat", "copy", "encode", "unsupported"}
          /\ (\E n \in OpsOf(k) : ~log[n].ok) => IsError(results[k])
          /\ results[k].inputPath = inputPaths[k]
    /\ \A n \in DOMAIN log :
          ~log[n].ok => \A m \in (n + 1)..Len(log) : log[m].file # log[n].file

\* a returned batch whose first file failed in an aggressive-fallback encode,
\* whose second file is missing and whose third was optimized
C8_Witness ==
    /\ pc = "done"
    /\ \E a \in 1..Len(results) : \E b \in 1..Len(results) :
          /\ a < b
          /\ IsError(results[a])
          /\ \E n \in PhaseOf(a, "aggressive") : ~log[n].ok
          /\ ~IsError(results[b])
          /\ PhaseOf(b, "search") # {}

\* ---------------------------------------------------------------- C9
\* C9: the records of batchOptimize follow the inputs: record k belongs to
\* input k and carries its filename, inputPath and outputPath, result or
\* error alike, and at the return there is one record per input.
C9_RecordsInInputOrder ==
    /\ Len(results) <= Len(inputPaths)
    /\ pc = "done" => Len(results) = Len(inputPaths)
    /\ \A k \in 1..Len(results) :
          /\ results[k].inputPath = inputPaths[k]
          /\ results[k].filename = [stem |-> inputPaths[k].stem,
                                    ext |-> inputPaths[k].ext]
          /\ pc # "exit" =>
                results[k].outputPath = [dir |-> outputDir,
                                         stem |-> inputPaths[k].stem,
                                         ext |-> inputPaths[k].ext]

\* a returned batch of two different inputs, an error record before a result
C9_Witness ==
    /\ pc = "done"
    /\ Len(results) >= 2
    /\ inputPaths[1] # inputPaths[2]
    /\ IsError(results[1])
    /\ ~IsError(results[2])

\* --------------------------------------------------------------- C10
\* C10: a call without target size on a readable PNG/JPEG source makes
\* exactly one encoder invocation, at maxQuality, and no other operation;
\* its result has iterations 1, quality maxQuality, success and underTarget
\* true, whatever the size.
C10_QualityOnly ==
    \A k \in 1..Len(results) :
        (/\ ~SizeTargeting
         /\ ExtSupported(inputPaths[k])
         /\ fs[inputPaths[k]] # Absent) =>
            /\ Cardinality(OpsOf(k)) = 1
            /\ \A n \in OpsOf(k) :
                  /\ log[n].op = "encode"
                  /\ log[n].q = options.maxQuality
                  /\ ~log[n].agg
            /\ ~IsError(results[k]) =>
                  /\ results[k].iterations = 1
                  /\ results[k].quality = options.maxQuality
                  /\ results[k].underTarget
                  /\ results[k].success
                  /\ \A n \in OpsOf(k) : results[k].optimizedSize = log[n].size

\* a quality-only result larger than its source, with minQuality above
\* maxQuality
C10_Witness ==
    /\ JustReturned
    /\ ~SizeTargeting
    /\ ~IsError(LastResult)
    /\ LastResult.optimizedSize > LastResult.originalSize
    /\ options.minQuality > options.maxQuality
    /\ LastResult.underTarget

\* options as the data model wants them
ValidOptions ==
    /\ options.minQuality <= options.maxQuality
    /\ options.maxIterations >= 1
    /\ options.safetyMargin >= 0

\* --------------------------------------------------------------- C11
\* C11: every size-targeting result, the short-circuit one included, has
\* success true exactly when optimizedSize <= targetSize, and underTarget
\* equal to success.
C11_HonestSuccess ==
    \A k \in 1..Len(results) :
        (SizeTargeting /\ ~IsError(results[k])) =>
            /\ results[k].success = (results[k].optimizedSize <= targetSize[1])
            /\ results[k].underTarget = results[k].success

\* --------------------------------------------------------------- C14
\* C14: for an input whose extension is not .png, .jpg or .jpeg, in either
\* mode, no encoder invocation and no write is made, and the call ends with
\* an error (stated for valid options: minQuality <= maxQuality,
\* maxIterations >= 1, safetyMargin >= 0).
C14_UnsupportedFailsFast ==
    \A k \in 1..Len(inputPaths) :
        (ValidOptions /\ ~ExtSupported(inputPaths[k])) =>
            /\ OpsOf(k) = {}
            /\ k <= Len(results) => IsError(results[k])

\* --------------------------------------------------------------- C15
\* C15: for minQuality in 1..100, an aggressive fallback that gives up with
\* the size still over targetSize has made an attempt at quality 1 (stated
\* for valid options).
C15_FallbackReachesOne ==
    (/\ pc = "fallback"
     /\ ~FallbackCond
     /\ ValidOptions
     /\ minQuality \in 1..100
     /\ optimizedSize > targetSize[1]) =>
        \E n \in PhaseOf(i, "aggressive") : log[n].q = 1

\* --------------------------------------------------------------- C16
\* C16: the operations of a batch are made file by file: those of input k
\* all come before those of input k + 1, an operation without a record yet
\* belongs to the one file being optimized, and between two files no call
\* state is left, only the results (and the files written).
C16_Sequential ==
    /\ \A n \in 1..(Len(log) - 1) : log[n].file <= log[n + 1].file
    /\ \A n \in DOMAIN log :
          log[n].file > Len(results) =>
              /\ log[n].file = i
              /\ pc \notin {"loop", "done"}
    /\ pc \in {"loop", "done"} =>
          locals = <<0, 0, 0, Infinity, 0, 0, 0, 0, 0>>

\* a returned batch whose two files each went through search, Step 3 and
\* the aggressive fallback
C16_Witness ==
    /\ pc = "done"
    /\ Len(results) >= 2
    /\ \A k \in 1..2 :
          /\ PhaseOf(k, "search") # {}
          /\ PhaseOf(k, "floor") # {}
          /\ PhaseOf(k, "aggressive") # {}

\* --------------------------------------------------------------- C17
\* right after Step 3 of the current call
AfterResolve == pc \in {"return", "fallback"} /\ PhaseOf(i, "aggressive") = {}

AcceptedOf(k) ==
    {n \in PhaseOf(k, "search") :
        log[n].ok /\ log[n].size <= targetSize[1] - options.safetyMargin}

\* C17: after the loop, when no sample was acceptable exactly one encode is
\* made, at max(10, minQuality); otherwise no floor encode and at most one
\* re-encode, at bestQuality, made exactly when the last loop encode was at
\* another quality, and the output then holds the encoder's bytes for
\* bestQuality.
C17_Resolve ==
    AfterResolve =>
        IF AcceptedOf(i) = {}
          THEN /\ Cardinality(PhaseOf(i, "floor")) = 1
               /\ \A n \in PhaseOf(i, "floor") :
                     log[n].q = Max(10, options.minQuality)
               /\ PhaseOf(i, "reencode") = {}
               /\ fs[outputPath].q = Max(10, options.minQuality)
          ELSE /\ PhaseOf(i, "floor") = {}
               /\ Cardinality(PhaseOf(i, "reencode")) <= 1
               /\ \A n \in PhaseOf(i, "reencode") : log[n].q = bestQuality
               /\ (PhaseOf(i, "reencode") # {}) =
                     (log[LastOf(PhaseOf(i, "search"))].q # bestQuality)
               /\ fs[outputPath].kind = "enc"
               /\ fs[outputPath].src = inputPath
               /\ fs[outputPath].q = bestQuality
               /\ enc[inputPath][<<FALSE, bestQuality>>] = {fs[outputPath].size}

\* a re-encode at bestQuality after a search that ended on a rejected sample
C17_Witness ==
    /\ AfterResolve
    /\ PhaseOf(i, "reencode") # {}
    /\ log[LastOf(PhaseOf(i, "search"))].size > adjustedTarget
    /\ fs[outputPath].q = bestQuality

\* --------------------------------------------------------------- C18
\* C18: the aggressive fallback is entered exactly when the size after
\* Step 3 is over targetSize (not the adjusted target), its first attempt
\* is at max(1, minQuality - 5), and an attempt of size <= targetSize is
\* the last operation of the call.
C18_FallbackTriggerAndStop ==
    /\ AfterResolve =>
          (pc = "fallback") = (fs[outputPath].size > targetSize[1])
    /\ \A k \in 1..Len(inputPaths) :
          PhaseOf(k, "aggressive") # {} =>
              LET first == CHOOSE n \in PhaseOf(k, "aggressive") :
                               \A m \in PhaseOf(k, "aggressive") : n <= m
                  before == {n \in WritesOf(k) : n < first}
              IN  /\ log[first].q = Max(1, options.minQuality - 5)
                  /\ before # {}
                  /\ log[LastOf(before)].size > targetSize[1]
                  /\ \A n \in PhaseOf(k, "aggressive") :
                        (log[n].ok /\ log[n].size <= targetSize[1]) =>
                            \A m \in OpsOf(k) : m <= n

\* a fallback entered after Step 3 left a size over the target, stopped by
\* its second attempt
C18_Witness ==
    /\ pc = "return"
    /\ Cardinality(PhaseOf(i, "aggressive")) = 2
    /\ fs[outputPath].size <= targetSize[1]
    /\ \E n \in PhaseOf(i, "floor") \cup PhaseOf(i, "reencode") :
          log[n].size > targetSize[1]

\* --------------------------------------------------------------- C19
\* C19: the iterations of a size-targeting result is the number of encoder
\* invocations of the binary-search loop alone, whatever the options: the
\* Step 3 and fallback encodes leave the counter as the loop left it, so
\* a call can make more invocations than it reports.
C19_IterationsCountSearchOnly ==
    /\ \A k \in 1..Len(results) :
          (SizeTargeting /\ ~IsError(results[k])) =>
              /\ results[k].iterations =
                    Cardinality({n \in EncodesOf(k) : log[n].phase = "search"})
              /\ results[k].iterations <= Cardinality(EncodesOf(k))
    /\ pc \in {"return", "fallback"} =>
          iterations =
              Cardinality(EncodesOf(i)) - Cardinality(PhaseOf(i, "floor"))
                  - Cardinality(PhaseOf(i, "reencode"))
                  - Cardinality(PhaseOf(i, "aggressive"))

\* a result of one iteration whose call made four encoder invocations
C19_Witness ==
    /\ JustReturned
    /\ SizeTargeting
    /\ ~IsError(LastResult)
    /\ LastResult.iterations = 1
    /\ Cardinality(EncodesOf(Len(results))) >= 4

\* --------------------------------------------------------------- C20
\* C20: when a batch returns, two different input paths have two different
\* output paths, and every result's optimizedSize is the size of the file
\* at its outputPath.
C20_DistinctOutputs ==
    pc = "done" =>
        /\ \A k \in 1..Len(results) : \A l \in 1..Len(results) :
              (/\ ~IsError(results[k])
               /\ ~IsError(results[l])
               /\ results[k].inputPath # results[l].inputPath) =>
                  results[k].outputPath # results[l].outputPath
        /\ \A k \in 1..Len(results) :
              ~IsError(results[k]) =>
                  /\ fs[results[k].outputPath] # Absent
                  /\ results[k].optimizedSize = fs[results[k].outputPath].size

\* --------------------------------------------------------------- C12
\* the bytes the file at p had when the run started
KeepsOriginal(p) == fs[p] # Absent /\ fs[p].kind = "orig" /\ fs[p].src = p

\* C12: in an in-place run every successful encoder write and copy made for
\* input k goes to a path other than inputPaths[k], and the file at
\* inputPaths[k] holds its original bytes until the final replace, which
\* puts there the output of a successful optimization of that very file; a
\* file whose optimization erred or returned success = false keeps them.
C12_InPlaceReplacesAfterSuccess ==
    inPlace =>
        /\ \A n \in DOMAIN log :
              log[n].ok => log[n].to # inputPaths[log[n].file]
        /\ \A k \in 1..Len(inputPaths) :
              \/ KeepsOriginal(inputPaths[k])
              \/ /\ pc = "exit"
                 /\ k <= Len(results)
                 /\ ~IsError(results[k])
                 /\ results[k].success
                 /\ fs[inputPaths[k]] # Absent
                 /\ fs[inputPaths[k]].kind = "enc"
                 /\ fs[inputPaths[k]].src = inputPaths[k]

\* --------------------------------------------------------------- C13
\* C13: in a run without --in-place no successful write goes to the path of
\* an input file, and every input file keeps its original bytes.
C13_SafeByDefault ==
    ~inPlace =>
        /\ \A n \in DOMAIN log :
              log[n].ok => log[n].to \notin InputsOf(inputPaths)
        /\ \A k \in 1..Len(inputPaths) :
              fs[inputPaths[k]] # Absent => KeepsOriginal(inputPaths[k])

\* --------------------------------------------------------------- C21
\* C21: in size-targeting mode with 1 <= minQuality <= maxQuality <= 100
\* (and maxIterations >= 1, safetyMargin >= 0), every encoder invocation of
\* the search, of Step 3 and of the aggressive fallback is made at a quality
\* between 1 and maxQuality.
C21_QualityWithinRange ==
    (/\ SizeTargeting
     /\ ValidOptions
     /\ 1 <= options.minQuality
     /\ options.maxQuality <= 100) =>
        \A n \in DOMAIN log :
            log[n].op = "encode" =>
                /\ log[n].q >= 1
                /\ log[n].q <= options.maxQuality

\* --------------------------------------------------------------- C22
\* C22: the encoder being a function of source, settings and quality, and
\* safetyMargin >= 0: a call whose search accepted a sample never enters
\* the aggressive fallback, makes at most maxIterations + 1 encoder
\* invocations, and its result has success true and optimizedSize <=
\* targetSize - safetyMargin.
C22_MarginRespected ==
    (SizeTargeting /\ options.safetyMargin >= 0) =>
        \A k \in 1..Len(inputPaths) :
            AcceptedOf(k) # {} =>
                /\ PhaseOf(k, "aggressive") = {}
                /\ k = i => pc # "fallback"
                /\ Cardinality(EncodesOf(k)) <= options.maxIterations + 1
                /\ (k <= Len(results) /\ ~IsError(results[k])) =>
                      /\ results[k].success
                      /\ results[k].optimizedSize <=
                            targetSize[1] - options.safetyMargin

\* a result of a search that accepted a sample, ended on a rejected one at
\* the iteration cap and was re-encoded, with a positive margin
C22_Witness ==
    /\ JustReturned
    /\ SizeTargeting
    /\ options.safetyMargin = 1
    /\ ~IsError(LastResult)
    /\ AcceptedOf(Len(results)) # {}
    /\ PhaseOf(Len(results), "reencode") # {}
    /\ Cardinality(EncodesOf(Len(results))) = options.maxIterations + 1
    /\ LastResult.optimizedSize <= targetSize[1] - 1

====
